---- MODULE Spec2Model ----
(***************************************************************************)
(* Model of ParallelSSH (src/ParallelSSH.py): the bounded-concurrency      *)
(* supervisor loop of run_cmd, the result collector and the mutators.      *)
(*                                                                         *)
(* The control thread is modelled by its position pc inside run_cmd; the   *)
(* environment (the ssh child processes and the wall clock) moves between  *)
(* any two steps of the control thread.                                    *)
(***************************************************************************)
EXTENDS Integers, Sequences, FiniteSets, TLC

\* ---------------------------------------------------------------- bounds
\* longest target list
MaxHosts == 2

\* ------------------------------------------------------------ value sets
\* Python None where an integer is expected (timeout, returncode)
None == -1

AllHosts == <<"h1", "h2", "h3", "h4">>

\* target lists: the first n hosts, and one list naming a host twice
HostLists ==
  {SubSeq(AllHosts, 1, n) : n \in 0..MaxHosts} \cup {<<"h1", "h1">>}

Hosts == {AllHosts[k] : k \in 1..Len(AllHosts)}

\* Python None where the list of hosts is expected (the default of line 23)
NoHostlist == <<"None">>

\* Python None where a list of records is expected (lines 38-39)
NoRecords == << <<"None">> >>

\* what hostlist can hold: a target list or None
HostlistValues == HostLists \cup {NoHostlist}

ExitCodes == {0, 1}

\* captured stdout: b"hi" and the lone byte 0xFF
Outputs == {<<104, 105>>, <<255>>}

\* captured stderr: empty (ssh -q); line 46 decodes it the way it decodes
\* stdout
ErrOutputs == {<<>>}

\* concurrency ceilings: no slot, one slot, two slots
MaxProcsValues == {0, 1, 2}

\* timeouts: unset, zero seconds, one second
TimeoutValues == {None, 0, 1}

\* datetime.now() (lines 105 and 125) is finer than the second the timeout
\* is counted in: the clock is read in ticks, TicksPerSecond of them to the
\* second, so that two launches can lie less than one timeout apart
TicksPerSecond == 2

\* timedelta(seconds=...) of line 125, in ticks of the clock
timedelta(seconds) == seconds * TicksPerSecond

\* lines 123-125 compare now - start_time with the timeout and nothing else
\* reads the clock, so ages above the longest timeout are all alike: the
\* clock counts up to MaxTime and slides from there on
LongestTimeout == CHOOSE t \in TimeoutValues : \A u \in TimeoutValues : u <= t

MaxTime == timedelta(LongestTimeout) + 1

VARIABLES
  max_procs,          \* self.max_procs
  timeout,            \* self.timeout (None or seconds)
  hostlist,           \* self.hostlist
  cmd_successes,      \* self.cmd_successes
  cmd_failures,       \* self.cmd_failures
  pc,                 \* position of the control thread
  expected_exit_code, \* argument of run_cmd
  cmds_to_run,        \* local of run_cmd: hosts whose command is not started
  running_procs,      \* local of run_cmd: entries [proc, start_time] or None
  i,                  \* index of the for loop (1-based)
  proc,               \* local of the for loop: the Popen object of entry i
  start_time,         \* local of the for loop
  now,                \* datetime.now(), counted from the call of run_cmd
  fired,              \* per launched target: the branches that recorded it
  killed,             \* targets whose process was sent kill() in this batch
  started,            \* the attributes as they were when run_cmd was entered
  dying,              \* children of this batch sent kill() and not yet gone
  batches             \* run_cmd calls so far: 0, 1, or 2 for two and more

vars == <<max_procs, timeout, hostlist, cmd_successes, cmd_failures, pc,
          expected_exit_code, cmds_to_run, running_procs, i, proc,
          start_time, now, fired, killed, started, dying,
          batches>>

config == <<max_procs, timeout, hostlist>>
results == <<cmd_successes, cmd_failures>>
locals == <<expected_exit_code, cmds_to_run, running_procs, i, proc, start_time>>
history == <<fired, killed, started>>

\* ------------------------------------------------------------- processes
\* A Popen object: id is the position of its host in the target list,
\* host is args[3]; st/returncode/stdout/stderr are the state of the child
\* process, overran tells that the deadline of its entry had been reached
\* when the child exited (it ran for the timeout or longer), outlived_by names the children of the
\* run set that were still running when this child exited.
Popen(id, host) ==
  [id |-> id, host |-> host, st |-> "running", returncode |-> None,
   stdout |-> <<>>, stderr |-> <<>>, overran |-> FALSE, outlived_by |-> {}]

NoProc == [id |-> 0, host |-> "", st |-> "none", returncode |-> None,
           stdout |-> <<>>, stderr |-> <<>>, overran |-> FALSE,
           outlived_by |-> {}]

\* the value None stored in a slot of running_procs
NoneEntry == [proc |-> NoProc, start_time |-> None]

\* what the local variable proc holds: the reference to a Popen object
\* (its identity and its args); the state of the child stays in the object
Ref(process) == [id |-> process.id, host |-> process.host]

NoRef == Ref(NoProc)

\* process.args[3]
get_hostname(process) == process.host

\* bytes.decode("UTF-8") on the modelled byte strings: every byte below
\* 0x80 is one code point, the byte 0xFF is never valid
CanDecode(bytes) == \A k \in 1..Len(bytes) : bytes[k] < 128

decode(bytes) == [k \in 1..Len(bytes) |-> bytes[k]]

append_failure(hostname, error, returncode) ==
  Append(cmd_failures, <<hostname, error, returncode>>)

append_success(hostname, stdout, stderr, returncode) ==
  Append(cmd_successes, <<hostname, decode(stdout), decode(stderr), returncode>>)

\* [x for x in running_procs if x is not None]
RECURSIVE RemoveNone(_)
RemoveNone(s) ==
  IF s = <<>> THEN <<>>
  ELSE IF Head(s) = NoneEntry THEN RemoveNone(Tail(s))
       ELSE <<Head(s)>> \o RemoveNone(Tail(s))

NoneIn(s) == \E k \in 1..Len(s) : s[k] = NoneEntry

\* a slip of running_procs[i]=None: every slot is cleared
ClearSlot_All(s, k) == [j \in 1..Len(s) |-> NoneEntry]

\* running_procs[i]=None
ClearSlot(s, k) == [s EXCEPT ![k] = NoneEntry]

\* self.max_procs, self.timeout and self.hostlist read together
Attributes == [max_procs |-> max_procs, timeout |-> timeout, hostlist |-> hostlist]

\* before the first call of run_cmd
NoBatch == [max_procs |-> 0, timeout |-> None, hostlist |-> <<>>]

\* the control thread is in the loop of lines 101-130
InBatch == pc \in {"refill", "scan", "poll", "timeout", "deadline"}

\* the control thread is inside run_cmd
InCall == pc = "entered" \/ InBatch

NotRunning == pc \in {"idle", "returned", "raised"}

\* ------------------------------------------------------------------ init
Init ==
  /\ max_procs \in MaxProcsValues
  /\ timeout \in TimeoutValues
  /\ hostlist \in HostlistValues
  \* lines 38-39: both are None until the first call of run_cmd
  /\ cmd_successes = NoRecords
  /\ cmd_failures = NoRecords
  /\ pc = "idle"
  /\ expected_exit_code = 0
  /\ cmds_to_run = <<>>
  /\ running_procs = <<>>
  /\ i = 1
  /\ proc = NoRef
  /\ start_time = None
  /\ now = 0
  /\ fired = <<>>
  /\ killed = {}
  /\ started = NoBatch
  /\ dying = {}
  /\ batches = 0

\* ----------------------------------------------------------- environment
\* the clock moves on; line 125 compares differences of clock readings
\* only, so the clock is read relative to the start of the batch
Tick ==
  /\ InBatch
  /\ now < MaxTime
  /\ now' = now + 1
  /\ UNCHANGED <<config, results, pc, locals, history, dying, batches>>

\* the clock moves on when now = MaxTime: the readings are kept relative to
\* the latest one, and an entry's age stops counting at MaxTime
Slide ==
  /\ InBatch
  /\ now = MaxTime
  /\ running_procs' =
       [j \in 1..Len(running_procs) |->
          IF running_procs[j] = NoneEntry \/ running_procs[j].start_time = 0
            THEN running_procs[j]
            ELSE [running_procs[j] EXCEPT !.start_time = @ - 1]]
  /\ start_time' = IF start_time = None \/ start_time = 0 THEN start_time
                   ELSE start_time - 1
  /\ UNCHANGED <<config, results, pc, expected_exit_code, cmds_to_run, i, proc,
                 now, history, dying, batches>>

\* the child process of slot j exits by itself
ProcExit(j, code, out, err) ==
  /\ InBatch
  /\ j \in 1..Len(running_procs)
  /\ running_procs[j] # NoneEntry
  /\ running_procs[j].proc.st = "running"
  /\ running_procs' =
       [running_procs EXCEPT ![j].proc =
          [@ EXCEPT !.st = "exited", !.returncode = code, !.stdout = out,
                    !.stderr = err,
                    !.overran = /\ timeout # None
                                /\ now >= running_procs[j].start_time + timedelta(timeout),
                    !.outlived_by =
                       {running_procs[k].proc.id :
                          k \in {m \in 1..Len(running_procs) :
                                   /\ m # j
                                   /\ running_procs[m] # NoneEntry
                                   /\ running_procs[m].proc.st = "running"}}]]
  /\ UNCHANGED <<config, results, pc, expected_exit_code, cmds_to_run, i,
                 proc, start_time, now, history, dying, batches>>

\* a child that was sent kill() is gone
ProcDie(k) ==
  /\ k \in dying
  /\ dying' = dying \ {k}
  /\ UNCHANGED <<config, results, pc, locals, now, history, batches>>

\* --------------------------------------------------------------- run_cmd
\* a frame of run_cmd whose locals are not assigned yet; the clock is read
\* relative to the call
NewFrame ==
  /\ cmds_to_run' = <<>>
  /\ running_procs' = <<>>
  /\ i' = 1
  /\ proc' = NoRef
  /\ start_time' = None
  /\ fired' = <<>>
  /\ killed' = {}
  /\ dying' = {}
  /\ now' = 0

\* a slip of lines 88-89: the failures of the last batch are kept
run_cmd_KeepFailures(E) ==
  /\ NotRunning
  /\ batches' = IF batches < 2 THEN batches + 1 ELSE batches
  /\ cmd_successes' = <<>>
  /\ cmd_failures' = cmd_failures
  /\ expected_exit_code' = E
  /\ started' = Attributes
  /\ NewFrame
  /\ pc' = "entered"
  /\ UNCHANGED config

\* lines 81-89: the call; the collector is reset
run_cmd(E) ==
  /\ NotRunning
  /\ batches' = IF batches < 2 THEN batches + 1 ELSE batches
  /\ cmd_successes' = <<>>
  /\ cmd_failures' = <<>>
  /\ expected_exit_code' = E
  /\ started' = Attributes
  /\ NewFrame
  /\ pc' = "entered"
  /\ UNCHANGED config

\* a slip of line 93: the last target of the list is left out
BuildQueue_DropsLast ==
  /\ pc = "entered"
  /\ cmds_to_run' = SubSeq(hostlist, 1, Len(hostlist) - 1)
  /\ fired' = [k \in 1..Len(hostlist) |-> {}]
  /\ pc' = "refill"
  /\ UNCHANGED <<config, results, expected_exit_code, running_procs, i, proc,
                 start_time, now, killed, started, dying, batches>>

\* lines 91-99: self.hostlist is read and the launch queue is built from it;
\* iterating over None raises TypeError
BuildQueue ==
  /\ pc = "entered"
  /\ IF hostlist = NoHostlist
       THEN /\ pc' = "raised"
            /\ UNCHANGED <<cmds_to_run, fired>>
       ELSE /\ cmds_to_run' = hostlist
            /\ fired' = [k \in 1..Len(hostlist) |-> {}]
            /\ pc' = "refill"
  /\ UNCHANGED <<config, results, expected_exit_code, running_procs, i, proc,
                 start_time, now, killed, started, dying, batches>>

\* a slip of line 103: <= for <
CanLaunch_OffByOne == Len(running_procs) <= max_procs /\ Len(cmds_to_run) > 0

\* a slip of line 103: the refill stops one entry short of max_procs
CanLaunch_OneShort == Len(running_procs) + 1 < max_procs /\ Len(cmds_to_run) > 0

\* line 103: len(running_procs) < self.max_procs and len(cmds_to_run) > 0
CanLaunch == Len(running_procs) < max_procs /\ Len(cmds_to_run) > 0

\* a slip of line 105: pop(0) takes the first element
pop_First(s) == [item |-> Head(s), rest |-> Tail(s)]

\* line 105: list.pop() takes the last element off the list
pop(s) == [item |-> s[Len(s)], rest |-> SubSeq(s, 1, Len(s) - 1)]

\* a slip of line 109: the launch queue is not looked at
BatchDone_RunSetOnly == Len(running_procs) = 0

\* line 109: len(running_procs)==0 and len(cmds_to_run)==0
BatchDone == Len(running_procs) = 0 /\ Len(cmds_to_run) = 0

\* a slip of line 93: the launch queue is the target list itself, not a
\* list built from it, and the pop of line 105 consumes the target list
Launch_Aliased ==
  /\ pc = "refill"
  /\ CanLaunch
  /\ LET n == Len(cmds_to_run)
         host == pop(cmds_to_run).item
     IN /\ cmds_to_run' = pop(cmds_to_run).rest
        /\ hostlist' = pop(cmds_to_run).rest
        /\ running_procs' =
             Append(running_procs, [proc |-> Popen(n, host), start_time |-> now])
  /\ UNCHANGED <<max_procs, timeout, results, pc, expected_exit_code, i, proc,
                 start_time, now, history, dying, batches>>

\* lines 103-105: one iteration of the refill loop
Launch ==
  /\ pc = "refill"
  /\ CanLaunch
  /\ LET n == Len(cmds_to_run)
         host == pop(cmds_to_run).item
     IN /\ cmds_to_run' = pop(cmds_to_run).rest
        /\ running_procs' =
             Append(running_procs, [proc |-> Popen(n, host), start_time |-> now])
  /\ UNCHANGED <<config, results, pc, expected_exit_code, i, proc,
                 start_time, now, history, dying, batches>>

\* lines 109-110: refill is over, nothing is left: break
Finish ==
  /\ pc = "refill"
  /\ ~CanLaunch
  /\ BatchDone
  /\ pc' = "returned"
  /\ UNCHANGED <<config, results, locals, now, history, dying, batches>>

\* lines 109, 113-114: refill is over, something is left: test the while
\* condition and enter the for loop.  With nothing to poll (no entry, no
\* None) the while loop runs on for ever: pc = "scan".
StartPass ==
  /\ pc = "refill"
  /\ ~CanLaunch
  /\ ~BatchDone
  /\ IF NoneIn(running_procs)
       THEN /\ running_procs' = RemoveNone(running_procs)
            /\ pc' = "refill"
            /\ i' = i
       ELSE /\ running_procs' = running_procs
            /\ i' = 1
            /\ pc' = IF Len(running_procs) = 0 THEN "scan" ELSE "poll"
  /\ UNCHANGED <<config, results, expected_exit_code, cmds_to_run,
                 proc, start_time, now, history, dying, batches>>

\* lines 115-122: read entry i, poll its process, classify it if it exited
PollEntry ==
  /\ pc = "poll"
  /\ LET e == running_procs[i]
         p == e.proc
     IN /\ proc' = Ref(p)
        /\ start_time' = e.start_time
        /\ IF p.st # "exited"
             THEN /\ pc' = "timeout"
                  /\ UNCHANGED <<results, running_procs, fired>>
             ELSE IF p.returncode = expected_exit_code
               THEN IF CanDecode(p.stdout) /\ CanDecode(p.stderr)
                      THEN /\ cmd_successes' =
                                append_success(get_hostname(p), p.stdout,
                                               p.stderr, p.returncode)
                           /\ running_procs' = ClearSlot(running_procs, i)
                           /\ fired' = [fired EXCEPT ![p.id] = @ \cup {"completion"}]
                           /\ pc' = "timeout"
                           /\ UNCHANGED cmd_failures
                      ELSE \* UnicodeDecodeError leaves run_cmd
                           /\ pc' = "raised"
                           /\ UNCHANGED <<results, running_procs, fired>>
               ELSE /\ cmd_failures' =
                         append_failure(get_hostname(p), "Unexpected Return Code",
                                        p.returncode)
                    /\ running_procs' = ClearSlot(running_procs, i)
                    /\ fired' = [fired EXCEPT ![p.id] = @ \cup {"completion"}]
                    /\ pc' = "timeout"
                    /\ UNCHANGED cmd_successes
  /\ UNCHANGED <<config, expected_exit_code, cmds_to_run, i, now, killed,
                 started, dying, batches>>

\* line 125: datetime.now() >= start_time+timedelta(seconds=self.timeout)
DeadlineReached == now >= start_time + timedelta(timeout)

\* a slip of line 123: the test for None is missing
HasTimeout_Always == TRUE

\* line 123: not self.timeout==None
HasTimeout == timeout # None

\* the next i of the for loop over the entries rp; after the last i the
\* while condition of line 113 is tested: with a None among the entries
\* line 130 removes the finished processes and the loop is back at line 101,
\* without one the for loop starts again
NextEntry(rp) ==
  IF i < Len(running_procs)
    THEN /\ running_procs' = rp
         /\ i' = i + 1
         /\ pc' = "poll"
         /\ UNCHANGED <<proc, start_time>>
    ELSE \* i, proc and start_time are assigned again before they are next
         \* read
         /\ i' = 1
         /\ proc' = NoRef
         /\ start_time' = None
         /\ IF NoneIn(rp)
              THEN running_procs' = RemoveNone(rp) /\ pc' = "refill"
              ELSE running_procs' = rp /\ pc' = "poll"

\* line 123: the first read of self.timeout; without a timeout the for loop
\* goes on
TimeoutTest ==
  /\ pc = "timeout"
  /\ IF HasTimeout
       THEN /\ pc' = "deadline"
            /\ UNCHANGED <<running_procs, i, proc, start_time>>
       ELSE NextEntry(running_procs)
  /\ UNCHANGED <<config, results, expected_exit_code, cmds_to_run, now,
                 history, dying, batches>>

\* lines 125-128: the second read of self.timeout; timedelta(seconds=None)
\* raises TypeError
DeadlineCheck ==
  /\ pc = "deadline"
  /\ IF timeout = None
       THEN /\ pc' = "raised"
            /\ UNCHANGED <<cmd_failures, fired, killed, dying, running_procs,
                           i, proc, start_time>>
       ELSE IF DeadlineReached
         THEN /\ killed' = killed \cup {proc.id}
              \* kill() sends the signal and returns; it does nothing for
              \* a child that was polled or has exited
              /\ dying' = IF /\ running_procs[i] # NoneEntry
                             /\ running_procs[i].proc.st = "running"
                            THEN dying \cup {proc.id} ELSE dying
              /\ cmd_failures' =
                   append_failure(get_hostname(proc), "Timeout Exceeded", None)
              /\ fired' = [fired EXCEPT ![proc.id] = @ \cup {"timeout"}]
              /\ NextEntry(ClearSlot(running_procs, i))
         ELSE /\ UNCHANGED <<cmd_failures, fired, killed, dying>>
              /\ NextEntry(running_procs)
  /\ UNCHANGED <<config, cmd_successes, expected_exit_code, cmds_to_run,
                 now, started, batches>>

\* ------------------------------------------------------------- accessors
\* lines 67-72: return self.cmd_successes; the caller reads the collector
\* when no batch is in progress
get_successes == NotRunning /\ UNCHANGED vars

\* lines 74-79: return self.cmd_failures
get_failures == NotRunning /\ UNCHANGED vars

\* -------------------------------------------------------------- mutators
set_hostlist(l) ==
  /\ hostlist' = l
  /\ UNCHANGED <<max_procs, timeout>>

set_max_procs(n) ==
  /\ max_procs' = n
  /\ UNCHANGED <<hostlist, timeout>>

set_timeout(t) ==
  /\ timeout' = t
  /\ UNCHANGED <<hostlist, max_procs>>

\* the frame of run_cmd is gone once the call is over
NoFrame ==
  /\ expected_exit_code' = 0
  /\ NewFrame

\* a mutator called between two batches
BetweenBatches(mutator) ==
  /\ NotRunning
  /\ mutator
  /\ pc' = "idle"
  /\ NoFrame
  /\ UNCHANGED <<results, started, batches>>

SetHostlist == \E l \in HostlistValues : BetweenBatches(set_hostlist(l))

SetMaxProcs == \E n \in MaxProcsValues : BetweenBatches(set_max_procs(n))

SetTimeout == \E t \in TimeoutValues : BetweenBatches(set_timeout(t))

RunCmd == \E E \in ExitCodes : run_cmd(E)

Exit == \E j \in 1..Len(running_procs), code \in ExitCodes, out \in Outputs, err \in ErrOutputs :
          ProcExit(j, code, out, err)

Die == \E k \in dying : ProcDie(k)

Next ==
  \/ RunCmd
  \/ BuildQueue
  \/ Launch
  \/ Finish
  \/ StartPass
  \/ PollEntry
  \/ TimeoutTest
  \/ DeadlineCheck
  \/ Tick
  \/ Slide
  \/ Exit
  \/ Die
  \/ SetHostlist
  \/ SetMaxProcs
  \/ SetTimeout
  \/ get_successes
  \/ get_failures

Spec == Init /\ [][Next]_vars

\* ------------------------------------------- mutators from another thread
\* a mutator called by another thread while run_cmd is in its loop: the
\* assignment of lines 133, 136, 139 lands between two steps of the control
\* thread
DuringBatch(mutator) ==
  /\ InCall
  /\ mutator
  /\ UNCHANGED <<results, pc, locals, now, history, dying, batches>>

ConcSetHostlist == \E l \in HostlistValues : DuringBatch(set_hostlist(l))

ConcSetMaxProcs == \E n \in MaxProcsValues : DuringBatch(set_max_procs(n))

ConcSetTimeout == \E t \in TimeoutValues : DuringBatch(set_timeout(t))

\* the call the other thread races with: the first run_cmd of the object,
\* with the default expected_exit_code of line 81
FirstRunCmd == batches = 0 /\ run_cmd(0)

\* the object the racing call is made on:
\* ParallelSSH(hostlist=["h1", "h2"], max_procs=1, timeout=1)
InitConc ==
  /\ Init
  /\ hostlist = <<"h1", "h2">>
  /\ max_procs = 1
  /\ timeout = 1

NextConc ==
  \/ FirstRunCmd
  \/ BuildQueue
  \/ Launch
  \/ Finish
  \/ StartPass
  \/ PollEntry
  \/ TimeoutTest
  \/ DeadlineCheck
  \/ Tick
  \/ Slide
  \/ Exit
  \/ Die
  \/ ConcSetHostlist
  \/ ConcSetMaxProcs
  \/ ConcSetTimeout

SpecConc == InitConc /\ [][NextConc]_vars

\* ------------------------------------------------------------ properties
\* number of occurrences of host h in a list of hosts
CountSeq(h, s) == Cardinality({k \in 1..Len(s) : s[k] = h})

\* number of records of host h in a result list
CountRec(h, recs) == Cardinality({k \in 1..Len(recs) : recs[k][1] = h})

\* the slots of running_procs that hold an entry
RunSet == {j \in 1..Len(running_procs) : running_procs[j] # NoneEntry}

\* number of run set entries of host h
CountRun(h) == Cardinality({j \in RunSet : running_procs[j].proc.host = h})

\* targets of the batch that no branch has recorded yet
Unclassified == {k \in 1..Len(fired) : fired[k] = {}}

TimeoutRecords == {k \in 1..Len(cmd_failures) : cmd_failures[k][2] = "Timeout Exceeded"}

\* the step is PollEntry
PollStep == pc = "poll" /\ pc' # "poll"

\* the step is DeadlineCheck
DeadlineStep == pc = "deadline" /\ pc' # "deadline"

\* the step ends the timeout check of entry i: TimeoutTest without a
\* timeout, or DeadlineCheck
CheckDone == pc \in {"timeout", "deadline"} /\ pc' \notin {"timeout", "deadline"}

\* the step is the entry into run_cmd
CallStep == NotRunning /\ pc' = "entered"

\* the step is BuildQueue
QueueStep == pc = "entered" /\ pc' # "entered"

\* the host of the entry the for loop is at
CurrentHost == IF pc = "poll" THEN running_procs[i].proc.host ELSE proc.host

\* C1: no launched process is recorded by both the completion branch and
\* the timeout branch: every launch contributes at most one record.
C1_NoDoubleClassification ==
  \A k \in 1..Len(fired) : Cardinality(fired[k]) <= 1

\* C2: after run_cmd has returned, the two lists together hold exactly one
\* record per target of the target list.
C2_OneRecordPerTarget ==
  pc = "returned" =>
    /\ Len(cmd_successes) + Len(cmd_failures) = Len(hostlist)
    /\ \A h \in Hosts :
         CountRec(h, cmd_successes) + CountRec(h, cmd_failures) = CountSeq(h, hostlist)

\* C3: the run set never holds more than max_procs entries nor more entries
\* than there are unclassified targets, and the refill step launches only
\* when the run set holds fewer than max_procs entries.
C3_RunSetBounded ==
  /\ [](/\ Cardinality(RunSet) <= max_procs
        /\ Cardinality(RunSet) <= Cardinality(Unclassified))
  /\ [][Len(running_procs') > Len(running_procs) =>
          Len(running_procs) < max_procs]_vars

\* C3 witness: the refill step has filled the run set to max_procs and
\* targets are still waiting in the launch queue.
C3_Witness ==
  /\ pc = "poll"
  /\ max_procs >= 1
  /\ Cardinality(RunSet) = max_procs
  /\ Len(cmds_to_run) > 0

\* C4: during a batch every target is in exactly one of the launch queue,
\* the run set, the successes and the failures.
C4_ExactlyOnePlace ==
  InBatch =>
    \A h \in Hosts :
      CountSeq(h, cmds_to_run) + CountRun(h) + CountRec(h, cmd_successes)
        + CountRec(h, cmd_failures) = CountSeq(h, hostlist)

\* C5: a process observed as exited with the expected code gets a success
\* record carrying that code, one observed with another code gets an
\* 'Unexpected Return Code' failure carrying the actual code, and every
\* success record carries the expected code.
C5_ExitCodeDecides ==
  /\ [](pc # "idle" =>
          \A k \in 1..Len(cmd_successes) : cmd_successes[k][4] = expected_exit_code)
  /\ [][(PollStep /\ running_procs[i].proc.st = "exited") =>
          LET p == running_procs[i].proc
          IN IF p.returncode = expected_exit_code
               THEN /\ Len(cmd_successes') = Len(cmd_successes) + 1
                    /\ cmd_successes'[Len(cmd_successes')][1] = p.host
                    /\ cmd_successes'[Len(cmd_successes')][4] = p.returncode
                    /\ cmd_failures' = cmd_failures
               ELSE /\ cmd_failures' =
                         Append(cmd_failures,
                                <<p.host, "Unexpected Return Code", p.returncode>>)
                    /\ cmd_successes' = cmd_successes]_vars

\* C6: with a timeout T, an entry found still running at or after start_time + T
\* is killed, removed and recorded as 'Timeout Exceeded' with no exit code in
\* the same pass, and a process that ran longer than T is never recorded by
\* the completion branch.
C6_LateProcessOnlyTimeout ==
  /\ [][(DeadlineStep /\ timeout # None /\ i \in RunSet
           /\ now >= start_time + timedelta(timeout)) =>
          /\ proc.id \in killed'
          /\ \A j \in 1..Len(running_procs') : running_procs'[j].proc.id # proc.id
          /\ cmd_failures' =
               Append(cmd_failures, <<proc.host, "Timeout Exceeded", None>>)]_vars
  /\ [][(PollStep /\ timeout # None
           /\ running_procs[i].proc.st = "exited"
           /\ running_procs[i].proc.overran) =>
          /\ cmd_successes' = cmd_successes
          /\ cmd_failures' = cmd_failures]_vars

\* C7: while the timeout is None no 'Timeout Exceeded' record is appended
\* and no process is killed: the timeout check of an entry goes on to the
\* next entry of the for loop.
C7_NoTimeoutWhenUnset ==
  /\ []((pc # "idle" /\ timeout = None) => (TimeoutRecords = {} /\ killed = {}))
  /\ [][(pc = "timeout" /\ timeout = None) =>
          /\ pc' \in {"timeout", "poll", "refill"}
          /\ cmd_failures' = cmd_failures
          /\ killed' = killed]_vars

\* C7 witness: with the timeout unset, the timeout check is reached for a
\* process that is still running after the clock has moved past its start.
C7_Witness ==
  /\ pc = "timeout"
  /\ timeout = None
  /\ i \in RunSet
  /\ running_procs[i].proc.st = "running"
  /\ now > start_time

\* C8: run_cmd empties both lists on entry, and from then on the lists hold
\* exactly the records made by the branches of the current batch.
C8_CollectorReset ==
  /\ [][CallStep => (cmd_successes' = <<>> /\ cmd_failures' = <<>>)]_vars
  /\ [](pc # "idle" =>
          \A h \in Hosts :
            CountRec(h, cmd_successes) + CountRec(h, cmd_failures)
              = Cardinality({kb \in (1..Len(fired)) \X {"completion", "timeout"} :
                               hostlist[kb[1]] = h /\ kb[2] \in fired[kb[1]]}))

\* C8 witness: the second call has returned with records in the collector.
C8_Witness ==
  /\ batches = 2
  /\ pc = "returned"
  /\ Len(cmd_successes) + Len(cmd_failures) > 0

\* C9: run_cmd leaves its supervisor loop, by its return or by an exception,
\* only when the launch queue and the run set are both empty.
C9_LeavesLoopOnlyWhenDrained ==
  pc \in {"returned", "raised"} => (cmds_to_run = <<>> /\ running_procs = <<>>)

\* C9, what the loop does keep: the break of lines 109-110 is taken only
\* when the launch queue and the run set are both empty.
ReturnsOnlyWhenDrained ==
  pc = "returned" => (cmds_to_run = <<>> /\ running_procs = <<>>)

\* C10: a step that records a failure raises nothing, appends one record for
\* the target at hand, takes that target's entry out of the run set and
\* leaves the successes, the launch queue and every other run set entry as
\* they were; a batch that returns has classified every target.
C10_FailureIsIsolated ==
  /\ [][Len(cmd_failures') > Len(cmd_failures) =>
          /\ pc' # "raised"
          /\ Len(cmd_failures') = Len(cmd_failures) + 1
          /\ SubSeq(cmd_failures', 1, Len(cmd_failures)) = cmd_failures
          /\ cmd_failures'[Len(cmd_failures')][1] = CurrentHost
          /\ cmd_successes' = cmd_successes
          /\ cmds_to_run' = cmds_to_run
          /\ RemoveNone(running_procs') = RemoveNone(ClearSlot(running_procs, i))]_vars
  /\ [](pc = "returned" => Unclassified = {})

\* C10 witness: run_cmd has returned with one target failed and another
\* one succeeded.
C10_Witness ==
  /\ pc = "returned"
  /\ Len(cmd_failures) >= 1
  /\ Len(cmd_successes) >= 1

\* ------------------------------------------------- the loop kept running
\* one step of the control thread inside run_cmd
Loop ==
  \/ BuildQueue
  \/ Launch
  \/ Finish
  \/ StartPass
  \/ PollEntry
  \/ TimeoutTest
  \/ DeadlineCheck

\* the clock advances
Clock == Tick \/ Slide

\* a child exits by itself, in a batch without timeout
ExitUnlessTimeout == timeout = None /\ Exit

NextLive ==
  \/ RunCmd
  \/ BuildQueue
  \/ Launch
  \/ Finish
  \/ StartPass
  \/ PollEntry
  \/ TimeoutTest
  \/ DeadlineCheck
  \/ Tick
  \/ Slide
  \/ Exit
  \/ Die

\* the control thread keeps being scheduled, the clock keeps advancing, and
\* without a timeout every launched child exits in the end
LiveSpec ==
  /\ Init
  /\ [][NextLive]_vars
  /\ WF_vars(Loop)
  /\ WF_vars(Clock)
  /\ WF_vars(ExitUnlessTimeout)

\* C11: a process that exited with the expected code is classified whether
\* or not its captured output is valid UTF-8: the step that observes it
\* records the target and goes on with the pass instead of leaving run_cmd
\* by an exception.
C11_DecodeNeverAborts ==
  [][(PollStep /\ running_procs[i].proc.st = "exited"
        /\ running_procs[i].proc.returncode = expected_exit_code) =>
       /\ pc' = "timeout"
       /\ "completion" \in fired'[running_procs[i].proc.id]]_vars

\* the step is one launch of the refill loop
LaunchStep == Len(running_procs') > Len(running_procs)

\* the step appends a 'Timeout Exceeded' record
TimeoutRecordStep ==
  /\ Len(cmd_failures') = Len(cmd_failures) + 1
  /\ cmd_failures'[Len(cmd_failures')][2] = "Timeout Exceeded"

\* the targets of the batch come from the target list l: the launch queue
\* is a prefix of l and each run set entry is for the target at its place
TargetsFrom(l) ==
  /\ Len(fired) = Len(l)
  /\ Len(cmds_to_run) <= Len(l)
  /\ cmds_to_run = SubSeq(l, 1, Len(cmds_to_run))
  /\ \A j \in RunSet :
       /\ running_procs[j].proc.id \in 1..Len(l)
       /\ running_procs[j].proc.host = l[running_procs[j].proc.id]

\* C12: a mutator called while a batch is in progress does not alter that
\* batch: until run_cmd returns, the batch launches the targets of the target
\* list, keeps to the ceiling and applies the timeout that were in force when
\* run_cmd was entered.
C12_BatchKeepsItsAttributes ==
  /\ [](InBatch =>
          /\ TargetsFrom(started.hostlist)
          /\ Cardinality(RunSet) <= started.max_procs
          /\ (pc = "poll" =>
                (cmds_to_run = <<>> \/ Len(running_procs) >= started.max_procs))
          /\ (started.timeout = None => (TimeoutRecords = {} /\ killed = {})))
  /\ [][LaunchStep => Len(running_procs) < started.max_procs]_vars
  /\ [][CheckDone =>
          /\ pc' # "raised"
          /\ (TimeoutRecordStep <=>
                (started.timeout # None /\ now >= start_time + timedelta(started.timeout)))]_vars

\* C13: a batch uses the attributes the mutators have set before it began:
\* run_cmd builds its launch queue from the target list as it is at the call
\* and launches exactly those targets, the run set never exceeds max_procs,
\* and the timeout branch fires exactly when the timeout is set and the
\* entry's deadline start_time + timedelta(timeout) has been reached (never when it is
\* None).
C13_NextBatchUsesNewAttributes ==
  /\ [][(QueueStep /\ hostlist # NoHostlist) =>
          (pc' = "refill" /\ cmds_to_run' = hostlist /\ UNCHANGED config)]_vars
  /\ [](InBatch =>
          /\ TargetsFrom(hostlist)
          /\ Cardinality(RunSet) <= max_procs)
  /\ [](pc = "returned" => (Len(fired) = Len(hostlist) /\ Unclassified = {}))
  /\ [][CheckDone =>
          (TimeoutRecordStep <=>
             (timeout # None /\ now >= start_time + timedelta(timeout)))]_vars

\* C13 witness: after a batch, the mutators have given all three attributes
\* values other than the ones that batch ran with, and the next call of
\* run_cmd is about to start from them.
C13_Witness ==
  /\ pc = "idle"
  /\ batches >= 1
  /\ started.hostlist # hostlist
  /\ started.max_procs # max_procs
  /\ started.timeout # timeout
  /\ Len(hostlist) = 2
  /\ max_procs = 1
  /\ timeout = 1

\* the children of this batch that exist: those of the run set that have
\* not exited, and those that were sent kill() and are not yet gone
LiveChildren ==
  {running_procs[j].proc.id : j \in {k \in RunSet : running_procs[k].proc.st = "running"}}
    \cup dying

\* C14: at no instant of a batch do more than max_procs child processes
\* exist, a child that was killed on timeout and is not yet gone counted
\* together with the child launched into its slot.
C14_AtMostMaxProcsAlive ==
  InBatch => Cardinality(LiveChildren) <= max_procs

\* C15: records are appended in completion order: while a child that has
\* exited still awaits its record, no child that exited after it has been
\* recorded by the completion branch.
C15_CompletionOrder ==
  \A j \in RunSet :
    running_procs[j].proc.st = "exited" =>
      \A k \in running_procs[j].proc.outlived_by : "completion" \notin fired[k]

\* C15, what the loop does keep: within a pass the entries are recorded by
\* increasing index, so that the cleared slots are all at or below the index
\* of the for loop.
PassOrder ==
  pc \in {"poll", "timeout"} =>
    \A j \in 1..Len(running_procs) :
      running_procs[j] = NoneEntry => (j < i \/ (j = i /\ pc = "timeout"))

\* the for loop is at the start of a pass over the run set
PassStart == pc \in {"poll", "scan"} /\ i = 1

\* C16: at the start of every poll pass the launch queue is empty or the run
\* set holds exactly max_procs entries, none of them cleared: a slot freed in
\* one pass is refilled before the next pass starts; a launch stamps the new
\* entry with the time of that launch and leaves the other entries alone.
C16_RefillIsWorkConserving ==
  /\ [](PassStart =>
          /\ ~NoneIn(running_procs)
          /\ (cmds_to_run = <<>> \/ Cardinality(RunSet) = max_procs))
  /\ [][LaunchStep =>
          /\ Len(running_procs') = Len(running_procs) + 1
          /\ SubSeq(running_procs', 1, Len(running_procs)) = running_procs
          /\ running_procs'[Len(running_procs')].start_time = now]_vars

\* C16 witness: a pass starts after the one slot was freed by a record and
\* refilled with the other target, whose entry carries the later time of its
\* own launch.
C16_Witness ==
  /\ pc = "poll"
  /\ i = 1
  /\ max_procs = 1
  /\ Len(cmd_successes) + Len(cmd_failures) = 1
  /\ Cardinality(RunSet) = 1
  /\ running_procs[1].start_time > 0

\* C17: targets are launched last-in-first-out: the k-th launch of a batch
\* starts the k-th target from the end of the target list, whatever has
\* finished in between, and the targets still queued are the front of the
\* list.
C17_LaunchOrderIsLIFO ==
  /\ [][LaunchStep =>
          LET k == Len(hostlist) - Len(cmds_to_run) + 1
              e == running_procs'[Len(running_procs')]
          IN /\ e.proc.host = hostlist[Len(hostlist) + 1 - k]
             /\ e.proc.id = Len(hostlist) + 1 - k
             /\ Len(cmds_to_run') = Len(cmds_to_run) - 1]_vars
  /\ [](InBatch =>
          /\ Len(cmds_to_run) <= Len(hostlist)
          /\ cmds_to_run = SubSeq(hostlist, 1, Len(cmds_to_run)))

\* C17 witness: of the list h1, h2 with one slot, h2 has been launched and
\* recorded and h1 has been launched after it.
C17_Witness ==
  /\ InBatch
  /\ hostlist = <<"h1", "h2">>
  /\ max_procs = 1
  /\ cmds_to_run = <<>>
  /\ CountRec("h2", cmd_successes) + CountRec("h2", cmd_failures) >= 1
  /\ CountRun("h1") = 1

\* max_procs leaves no slot and there are targets
NoSlot == max_procs <= 0 /\ hostlist # <<>>

\* C19: with max_procs <= 0 and targets in the list, run_cmd launches
\* nothing, records nothing and never leaves its loop: the launch queue stays
\* whole and the run set stays empty.  With an empty target list the first
\* step after the call is the return, with both result lists empty, whatever
\* max_procs is.
C19_NoSlotNeverReturns ==
  /\ []((InBatch /\ NoSlot) =>
          /\ cmds_to_run = hostlist
          /\ running_procs = <<>>
          /\ cmd_successes = <<>>
          /\ cmd_failures = <<>>
          /\ dying = {})
  /\ [][(InBatch /\ NoSlot) => InBatch']_vars
  /\ []((InBatch /\ hostlist = <<>>) =>
          (pc = "refill" /\ ~CanLaunch /\ BatchDone))
  /\ [][(InBatch /\ hostlist = <<>> /\ pc' # pc) =>
          /\ pc' = "returned"
          /\ cmd_successes' = <<>>
          /\ cmd_failures' = <<>>]_vars

\* C19 witness: with max_procs = 0 the loop is still spinning over its two
\* queued targets after the clock has moved on.
C19_Witness ==
  /\ pc = "scan"
  /\ max_procs = 0
  /\ Len(cmds_to_run) = 2
  /\ now > 0

\* C20: only a mutator changes the target list, max_procs or timeout, and
\* only run_cmd changes the result lists: every step of run_cmd and of the
\* accessors leaves the three attributes as they are; a call of run_cmd that
\* follows a batch with no mutator in between finds the target list of that
\* batch and queues the same targets.
C20_RunCmdKeepsAttributes ==
  /\ [][(hostlist' # hostlist \/ max_procs' # max_procs \/ timeout' # timeout) =>
          (NotRunning /\ pc' = "idle")]_vars
  /\ [][(cmd_successes' # cmd_successes \/ cmd_failures' # cmd_failures) =>
          (CallStep \/ PollStep \/ DeadlineStep)]_vars
  /\ [](pc # "idle" => Attributes = started)
  /\ [][(CallStep /\ pc # "idle") => started' = started]_vars
  /\ [][(QueueStep /\ pc' = "refill") => cmds_to_run' = started.hostlist]_vars

\* C20 witness: a second call of run_cmd has launched and classified both
\* targets and has returned, and the attributes are still the ones it was
\* entered with.
C20_Witness ==
  /\ batches = 2
  /\ pc = "returned"
  /\ Len(hostlist) = 2
  /\ Unclassified = {}
  /\ Attributes = started

\* C18: with max_procs >= 1 every batch comes to its return with every
\* target classified: with a timeout even if no child exits by itself,
\* without one if every launched child exits.
C18_RunCmdReturns ==
  (InBatch /\ max_procs >= 1) ~> (pc = "returned" /\ Unclassified = {})

\* C18, what the loop does keep: with max_procs >= 1 every batch comes to an
\* end, by its return or by the exception of C11.
RunCmdEnds ==
  (InBatch /\ max_procs >= 1) ~> NotRunning

====
